---- MODULE Spec2Model ----
(***************************************************************************)
(* Boil-off-gas (BOG) rate models and daily voyage simulators of the       *)
(* seawise calculators (src/calculators/bog_calculator*.py).               *)
(*                                                                         *)
(* Python floats are modelled as exact rationals <<n, d>> (d > 0, lowest   *)
(* terms): every formula of the source is evaluated in real arithmetic,    *)
(* operation by operation, in the order the source writes it.              *)
(***************************************************************************)
EXTENDS Integers, Sequences, FiniteSets, TLC

\* ------------------------------------------------------------------------
\* Rational arithmetic (the float operators +, -, *, /, <, min, max, int)
\* ------------------------------------------------------------------------

Abs(x) == IF x < 0 THEN -x ELSE x

RECURSIVE Gcd(_, _)
Gcd(a, b) == IF b = 0 THEN a ELSE Gcd(b, a % b)

\* n/d in lowest terms with a positive denominator (d # 0)
Frac(n, d) ==
    LET g == Gcd(Abs(n), Abs(d))
        s == IF d < 0 THEN -1 ELSE 1
    IN  <<(s * n) \div g, (s * d) \div g>>

R(n) == <<n, 1>>

Zero == R(0)

One == R(1)

RNeg(a) == <<-a[1], a[2]>>

RAdd(a, b) ==
    LET g == Gcd(a[2], b[2])
    IN  Frac(a[1] * (b[2] \div g) + b[1] * (a[2] \div g), (a[2] \div g) * b[2])

RSub(a, b) == RAdd(a, RNeg(b))

RMul(a, b) ==
    LET g1 == Gcd(Abs(a[1]), b[2])
        g2 == Gcd(Abs(b[1]), a[2])
    IN  <<(a[1] \div g1) * (b[1] \div g2), (a[2] \div g2) * (b[2] \div g1)>>

\* a / b for b # 0 (Python raises ZeroDivisionError on b = 0: the callers guard)
RDiv(a, b) == RMul(a, Frac(b[2], b[1]))

RLt(a, b) ==
    LET g == Gcd(a[2], b[2])
    IN  a[1] * (b[2] \div g) < b[1] * (a[2] \div g)

RLe(a, b) == ~RLt(b, a)

\* Python's min(a, b): b only when b < a
RMin(a, b) == IF RLt(b, a) THEN b ELSE a

\* Python's max(a, b): b only when b > a
RMax(a, b) == IF RLt(a, b) THEN b ELSE a

\* variant: the day count rounded up instead of truncated
PyIntUp(a) == IF a[1] % a[2] = 0 THEN a[1] \div a[2] ELSE (a[1] \div a[2]) + 1

\* Python's int(x): truncation towards zero
PyInt(a) == IF a[1] >= 0 THEN a[1] \div a[2] ELSE -((-a[1]) \div a[2])

\* Python's round(x, ndigits) with scale = 10^ndigits: nearest multiple of
\* 1/scale, a tie going to the even multiple
PyRound(a, scale) ==
    LET x  == RMul(a, R(scale))
        fl == IF x[1] >= 0 THEN x[1] \div x[2] ELSE -(((-x[1]) + x[2] - 1) \div x[2])
        r2 == 2 * (x[1] - fl * x[2])
        q  == IF r2 < x[2] THEN fl
              ELSE IF r2 > x[2] THEN fl + 1
              ELSE IF fl % 2 = 0 THEN fl ELSE fl + 1
    IN  Frac(q, scale)

RECURSIVE Isqrt(_, _)
Isqrt(n, k) == IF (k + 1) * (k + 1) > n THEN k ELSE Isqrt(n, k + 1)

\* x ** 1.5 on the non-negative perfect squares p*p/(q*q), where it is rational
Pow15(a) ==
    LET p == Isqrt(a[1], 0)
        q == Isqrt(a[2], 0)
    IN  RMul(a, Frac(p, q))

IsSquare(a) ==
    /\ a[1] >= 0
    /\ Isqrt(a[1], 0) * Isqrt(a[1], 0) = a[1]
    /\ Isqrt(a[2], 0) * Isqrt(a[2], 0) = a[2]

\* ------------------------------------------------------------------------
\* Results of a call: a returned value or a raised exception
\* ------------------------------------------------------------------------

Ok(v) == [kind |-> "ok", val |-> v]

Raise(e) == [kind |-> "raise", exc |-> e]

\* ------------------------------------------------------------------------
\* bog_calculator2.py: the multiplicative rate model
\* ------------------------------------------------------------------------

SolarKeys == {"Low", "Medium", "High"}

solar_factors == [Low |-> One, Medium |-> Frac(51, 50), High |-> Frac(21, 20)]

pressure_factor(tank_pressure) ==
    RAdd(One, RMul(RDiv(RSub(tank_pressure, R(1013)), R(1013)), Frac(1, 10)))

\* variant: the tank level has no effect on the rate
level_factor_flat(tank_level) == One

level_factor(tank_level) ==
    RAdd(One, RMul(RSub(One, RDiv(tank_level, R(100))), Frac(1, 20)))

\* variant: reference temperature 20 instead of 19.5 degrees C
temp_factor_ref20(ambient_temp) == RAdd(One, RDiv(RSub(ambient_temp, R(20)), R(100)))

temp_factor(ambient_temp) ==
    RAdd(One, RDiv(RSub(ambient_temp, Frac(39, 2)), R(100)))

\* variant: the wave term subtracted instead of added
wave_factor_inverted(wave_height) == RSub(One, RMul(wave_height, Frac(2, 100)))

wave_factor(wave_height) == RAdd(One, RMul(wave_height, Frac(1, 50)))

calculate_bog_rate(base_rate, tank_pressure, tank_level, ambient_temp, wave_height, solar_radiation) ==
    IF solar_radiation \notin SolarKeys
    THEN Raise("KeyError")
    ELSE LET total_factor ==
                 RMul(RMul(RMul(RMul(pressure_factor(tank_pressure),
                                     level_factor(tank_level)),
                                temp_factor(ambient_temp)),
                           wave_factor(wave_height)),
                      solar_factors[solar_radiation])
         IN  Ok(RMul(base_rate, total_factor))

\* ------------------------------------------------------------------------
\* bog_calculator.py / bog_calculator3.py: the vessel-specific rate models
\* ------------------------------------------------------------------------

\* get_vessel_configs(): the entries the models read
vessel_configs ==
    [MEGI |-> [tank_capacity |-> R(174000),
               base_bog_rate |-> Frac(14, 100),
               daily_consumption |-> R(100),
               emissions_reduction |-> Frac(22, 100),
               reliq_efficiency |-> Frac(90, 100)],
     DFDE |-> [tank_capacity |-> R(180000),
               base_bog_rate |-> Frac(15, 100),
               daily_consumption |-> R(130),
               bog_rates |-> [laden |-> Frac(15, 100), ballast |-> Frac(6, 100)]]]

\* "Base BOG adjustments based on vessel type and voyage type": the rate the
\* function goes on with (the argument itself unless the vessel is DFDE)
effective_base_rate(base_rate, vessel_type, is_ballast) ==
    IF vessel_type = "DFDE" /\ is_ballast
    THEN vessel_configs[vessel_type].bog_rates.ballast
    ELSE IF vessel_type = "DFDE"
         THEN vessel_configs[vessel_type].bog_rates.laden
         ELSE base_rate

aging_factor(tank_age) == RAdd(One, RMul(tank_age, Frac(5, 1000)))

\* "Enhanced wave effect": 1.0 + (wave_height ** 1.5) * 0.01, modelled on the
\* wave heights whose power is rational (non-negative perfect squares)
enhanced_wave_factor(wave_height) ==
    RAdd(One, RMul(Pow15(wave_height), Frac(1, 100)))

\* bog_calculator.py: returns the final rate and the factor breakdown
calculate_enhanced_bog_rate(base_rate, tank_pressure, tank_level, ambient_temp, wave_height, solar_radiation, vessel_type, is_ballast, tank_age) ==
    IF vessel_type \notin DOMAIN vessel_configs
    THEN Raise("KeyError")
    ELSE IF solar_radiation \notin SolarKeys
    THEN Raise("KeyError")
    ELSE LET base == effective_base_rate(base_rate, vessel_type, is_ballast)
             total_factor ==
                 RMul(RMul(RMul(RMul(RMul(pressure_factor(tank_pressure),
                                          level_factor(tank_level)),
                                     temp_factor(ambient_temp)),
                                enhanced_wave_factor(wave_height)),
                           solar_factors[solar_radiation]),
                      aging_factor(tank_age))
         IN  Ok([final_rate |-> RMul(base, total_factor),
                 factors |-> [base_rate |-> base,
                              aging_factor |-> aging_factor(tank_age),
                              pressure_factor |-> pressure_factor(tank_pressure),
                              level_factor |-> level_factor(tank_level),
                              temp_factor |-> temp_factor(ambient_temp),
                              wave_factor |-> enhanced_wave_factor(wave_height),
                              solar_factor |-> solar_factors[solar_radiation]]])

\* bog_calculator3.py: same vessel-specific base rate, the linear wave factor,
\* no tank ageing, returns the rate alone
calculate_enhanced_bog_rate3(base_rate, tank_pressure, tank_level, ambient_temp, wave_height, solar_radiation, vessel_type, is_ballast) ==
    IF vessel_type \notin DOMAIN vessel_configs
    THEN Raise("KeyError")
    ELSE calculate_bog_rate(effective_base_rate(base_rate, vessel_type, is_ballast),
                            tank_pressure, tank_level, ambient_temp,
                            wave_height, solar_radiation)

\* ------------------------------------------------------------------------
\* bog_calculator1.py: the additive rate model
\* ------------------------------------------------------------------------

\* base + ((ambient_temp - 19.5) / 10) * 0.025
calculate_temperature_effect(base_bog_rate, ambient_temp) ==
    RAdd(base_bog_rate,
         RMul(RDiv(RSub(ambient_temp, Frac(39, 2)), R(10)), Frac(25, 1000)))

calculate_sea_state_effect(base_bog_rate, wave_height) ==
    IF RLt(wave_height, R(1)) THEN Zero
    ELSE IF RLt(wave_height, R(2)) THEN Frac(5, 1000)
    ELSE IF RLt(wave_height, R(4)) THEN Frac(1, 100)
    ELSE Frac(2, 100)

\* solar_factors.get(solar_radiation, 0)
calculate_solar_effect(base_bog_rate, solar_radiation) ==
    CASE solar_radiation = "Low" -> Frac(5, 1000)
      [] solar_radiation = "Medium" -> Frac(15, 1000)
      [] solar_radiation = "High" -> Frac(25, 1000)
      [] OTHER -> Zero

\* returns the pair (round(total_bog, 2), round(total_rate, 4)), or (0, 0)
calculate_adjusted_bog(cargo_volume, base_bog_rate, time, ambient_temp, wave_height, solar_radiation) ==
    IF RLt(Zero, cargo_volume) /\ RLt(Zero, base_bog_rate) /\ RLt(Zero, time)
    THEN LET temp_adjusted_rate == calculate_temperature_effect(base_bog_rate, ambient_temp)
             sea_state_adjustment == calculate_sea_state_effect(base_bog_rate, wave_height)
             solar_adjustment == calculate_solar_effect(base_bog_rate, solar_radiation)
             total_rate == RAdd(RAdd(temp_adjusted_rate, sea_state_adjustment),
                                solar_adjustment)
             daily_bog == RMul(cargo_volume, RDiv(total_rate, R(100)))
             total_bog == RMul(daily_bog, time)
         IN  Ok(<<PyRound(total_bog, 100), PyRound(total_rate, 10000)>>)
    ELSE Ok(<<Zero, Zero>>)

\* ------------------------------------------------------------------------
\* State
\* ------------------------------------------------------------------------

VARIABLES
    fn,                \* the simulator being executed
    args,              \* its arguments
    remaining_volume,  \* the local remaining_volume
    day,               \* the next value of the loop variable `day`
    daily_data,        \* the records appended so far
    pc,                \* "loop" | "returned" | "raised" | "summarized" (the
                       \* economics of the returned profile were computed;
                       \* "idle": no simulation)
    exc,               \* the exception raised, "none" otherwise
    calls,             \* calls of the pure functions made so far, with their results
    legs,              \* the locals of the voyage legs simulated side by side
                       \* (the legs specification), <<>> otherwise
    session            \* st.session_state and the widgets of the page being
                       \* rerun (the page specifications), <<>> otherwise

vars == <<fn, args, remaining_volume, day, daily_data, pc, exc, calls, legs, session>>

\* ------------------------------------------------------------------------
\* Bounds and input sets
\* ------------------------------------------------------------------------

\* the longest voyage simulated runs MaxDays full days (plus a fraction)
MaxDays == 2

Volumes == {R(-4), Zero, R(4)}

VoyageDays == {R(-1), Zero, Frac(1, 2), R(MaxDays), Frac(2 * MaxDays + 1, 2)}

BaseRates == {Zero, R(50), R(200)}

\* "Extreme" is not a key of solar_factors
Solars == {"Low", "Extreme"}

\* 1013 mbar (factor 1) and 11143 mbar (factor 2)
Pressures == {R(1013), R(11143)}

\* no demand, less than a day's BOG, and as much as the whole cargo
EngineConsumptions == {Zero, One, R(4)}

ReliqCapacities == {Zero, One}

ReliqEfficiencies == {Zero, Frac(1, 2), One}

\* daily temperature readings: 19.5, 44.5 and the extreme -180.5 degrees C
\* (np.random.normal is unbounded)
Temps == {Frac(39, 2), Frac(89, 2), Frac(-361, 2)}

\* daily wave-height readings for the linear wave factor: 0 m (factor 1) and
\* 50 m (factor 2)
Waves == {Zero, R(50)}

\* daily wave-height readings for the power-law wave factor (the rate
\* specification below varies the wave height of that factor)
ProfileWaves == {Zero}

\* lengths of the daily readings lists ambient_temps and wave_heights: one
\* reading, or one more than the longest voyage has full days
ReadingCounts == {1, MaxDays + 1}

VesselTypes == {"MEGI", "DFDE"}

\* tank age in years: 199400/3 makes the aging factor 1000/3, so that the DFDE
\* rates 0.15 and 0.06 %/day become 50 and 20 %/day and the exact arithmetic
\* of a three-day voyage stays within 32-bit integers (the function takes any
\* float; the "Tank Age (years)" widget offers 0 to 20)
TankAges == {Frac(199400, 3)}

\* ------------------------------------------------------------------------
\* bog_calculator2.py: calculate_daily_bog, one loop iteration at a time
\* ------------------------------------------------------------------------

\* tank_level = (remaining_volume / initial_volume) * 100.0
tank_level_of(remaining, initial_volume) ==
    RMul(RDiv(remaining, initial_volume), R(100))

\* bog_generated = remaining_volume * (bog_rate / 100.0)
bog_generated_of(remaining, bog_rate) == RMul(remaining, RDiv(bog_rate, R(100)))

\* variant: the engines take their full demand, not min(generated, demand)
bog_consumed_full_demand(bog_generated, engine_consumption) == engine_consumption

\* bog_consumed = min(bog_generated, engine_consumption)
bog_consumed_of(bog_generated, engine_consumption) ==
    RMin(bog_generated, engine_consumption)

\* variant: a lossless plant, the efficiency is not applied
bog_reliquefied_lossless(bog_generated, bog_consumed, reliq_capacity, reliq_efficiency) == RMin(RSub(bog_generated, bog_consumed), reliq_capacity)

\* variant: the plant is offered all the generated BOG, not what the engines left
bog_reliquefied_of_generated(bog_generated, bog_consumed, reliq_capacity, reliq_efficiency) == RMul(RMin(bog_generated, reliq_capacity), reliq_efficiency)

\* bog_to_reliquify = bog_generated - bog_consumed
\* bog_reliquefied = min(bog_to_reliquify, reliq_capacity) * reliq_efficiency
bog_reliquefied_of(bog_generated, bog_consumed, reliq_capacity, reliq_efficiency) ==
    LET bog_to_reliquify == RSub(bog_generated, bog_consumed)
    IN  RMul(RMin(bog_to_reliquify, reliq_capacity), reliq_efficiency)

\* variant: the reliquefied volume is not returned to the tank
updated_remaining_no_return(remaining, bog_generated, bog_reliquefied) == RSub(remaining, bog_generated)

\* remaining_volume = remaining_volume - bog_generated + bog_reliquefied
updated_remaining(remaining, bog_generated, bog_reliquefied) ==
    RAdd(RSub(remaining, bog_generated), bog_reliquefied)

\* the record appended for the day; remaining_volume is stored after its update,
\* tank_level as computed at the top of the iteration
daily_bog_record(d, remaining, tank_level, bog_rate, temperature, wave_height, a) ==
    LET bog_generated == bog_generated_of(remaining, bog_rate)
        bog_consumed == bog_consumed_of(bog_generated, a.engine_consumption)
        bog_reliquefied == bog_reliquefied_of(bog_generated, bog_consumed, a.reliq_capacity, a.reliq_efficiency)
    IN  [day |-> d,
         remaining_volume |-> updated_remaining(remaining, bog_generated, bog_reliquefied),
         bog_rate |-> bog_rate,
         bog_generated |-> bog_generated,
         bog_consumed |-> bog_consumed,
         bog_reliquefied |-> bog_reliquefied,
         tank_level |-> tank_level,
         temperature |-> temperature,
         wave_height |-> wave_height]

DailyBogArgs ==
    [initial_volume : Volumes, days : VoyageDays, base_bog_rate : BaseRates,
     solar_radiation : Solars, tank_pressure : Pressures,
     engine_consumption : EngineConsumptions, reliq_capacity : ReliqCapacities,
     reliq_efficiency : ReliqEfficiencies, readings : ReadingCounts]

\* a call of calculate_daily_bog: daily_data empty, remaining_volume = float(initial_volume)
CallDailyBog ==
    /\ fn = "calculate_daily_bog"
    /\ args \in DailyBogArgs
    /\ remaining_volume = args.initial_volume
    /\ day = 0
    /\ daily_data = <<>>
    /\ pc = "loop"
    /\ exc = "none"
    /\ calls = <<>>
    /\ legs = <<>>
    /\ session = <<>>

\* one iteration of `for day in range(int(days))` that completes
DailyBogDay ==
    /\ fn = "calculate_daily_bog"
    /\ pc = "loop"
    /\ day < PyInt(args.days)
    /\ args.initial_volume # Zero
    /\ day < args.readings
    /\ args.solar_radiation \in SolarKeys
    /\ \E temperature \in Temps, wave_height \in Waves :
         LET tank_level == tank_level_of(remaining_volume, args.initial_volume)
             bog_rate == calculate_bog_rate(args.base_bog_rate, args.tank_pressure, tank_level, temperature, wave_height, args.solar_radiation).val
             rec == daily_bog_record(day, remaining_volume, tank_level, bog_rate, temperature, wave_height, args)
         IN  /\ daily_data' = Append(daily_data, rec)
             /\ remaining_volume' = rec.remaining_volume
    /\ day' = day + 1
    /\ UNCHANGED <<fn, args, pc, exc, calls, legs, session>>

\* an iteration that raises: the division by initial_volume = 0 (line 107),
\* ambient_temps[day] past the end of the list (line 114), or the lookup of an
\* unknown solar_radiation inside calculate_bog_rate (line 83)
DailyBogRaise ==
    /\ fn = "calculate_daily_bog"
    /\ pc = "loop"
    /\ day < PyInt(args.days)
    /\ \/ /\ args.initial_volume = Zero
          /\ exc' = "ZeroDivisionError"
       \/ /\ args.initial_volume # Zero
          /\ day >= args.readings
          /\ exc' = "IndexError"
       \/ /\ args.initial_volume # Zero
          /\ day < args.readings
          /\ args.solar_radiation \notin SolarKeys
          /\ exc' = "KeyError"
    /\ pc' = "raised"
    /\ UNCHANGED <<fn, args, remaining_volume, day, daily_data, calls, legs, session>>

\* range(int(days)) is exhausted: return pd.DataFrame(daily_data)
DailyBogReturn ==
    /\ fn = "calculate_daily_bog"
    /\ pc = "loop"
    /\ day >= PyInt(args.days)
    /\ pc' = "returned"
    /\ UNCHANGED <<fn, args, remaining_volume, day, daily_data, exc, calls, legs, session>>

\* ------------------------------------------------------------------------
\* bog_calculator.py: calculate_daily_bog_profile, one loop iteration at a time
\* ------------------------------------------------------------------------

\* is_ballast=initial_volume < initial_volume * 0.5
profile_is_ballast(initial_volume) ==
    RLt(initial_volume, RMul(initial_volume, Frac(1, 2)))

\* bog_volume = remaining_volume * (bog_calc['final_rate'] / 100.0)
bog_volume_of(remaining, final_rate) == RMul(remaining, RDiv(final_rate, R(100)))

\* the record appended for the day: remaining_volume is stored before its update
profile_record(d, remaining, tank_level, bog_calc, temperature, wave_height) ==
    [day |-> d,
     remaining_volume |-> remaining,
     tank_level |-> tank_level,
     bog_rate |-> bog_calc.final_rate,
     bog_volume |-> bog_volume_of(remaining, bog_calc.final_rate),
     temperature |-> temperature,
     wave_height |-> wave_height,
     pressure_factor |-> bog_calc.factors.pressure_factor,
     level_factor |-> bog_calc.factors.level_factor,
     temp_factor |-> bog_calc.factors.temp_factor,
     wave_factor |-> bog_calc.factors.wave_factor]

ProfileArgs ==
    [initial_volume : Volumes, voyage_days : VoyageDays, vessel_type : VesselTypes,
     solar_radiation : Solars, tank_pressure : Pressures, tank_age : TankAges,
     readings : ReadingCounts]

\* a call of calculate_daily_bog_profile: daily_data empty,
\* remaining_volume = initial_volume
CallDailyBogProfile ==
    /\ fn = "calculate_daily_bog_profile"
    /\ args \in ProfileArgs
    /\ remaining_volume = args.initial_volume
    /\ day = 0
    /\ daily_data = <<>>
    /\ pc = "loop"
    /\ exc = "none"
    /\ calls = <<>>
    /\ legs = <<>>
    /\ session = <<>>

\* one iteration of `for day in range(int(voyage_days))` that completes
ProfileDay ==
    /\ fn = "calculate_daily_bog_profile"
    /\ pc = "loop"
    /\ day < PyInt(args.voyage_days)
    /\ args.initial_volume # Zero
    /\ day < args.readings
    /\ args.solar_radiation \in SolarKeys
    /\ \E temperature \in Temps, wave_height \in ProfileWaves :
         LET tank_level == tank_level_of(remaining_volume, args.initial_volume)
             bog_calc == calculate_enhanced_bog_rate(Zero, args.tank_pressure, tank_level, temperature, wave_height, args.solar_radiation, args.vessel_type, profile_is_ballast(args.initial_volume), args.tank_age).val
             rec == profile_record(day, remaining_volume, tank_level, bog_calc, temperature, wave_height)
         IN  /\ daily_data' = Append(daily_data, rec)
             /\ remaining_volume' = RSub(remaining_volume, rec.bog_volume)
    /\ day' = day + 1
    /\ UNCHANGED <<fn, args, pc, exc, calls, legs, session>>

\* an iteration that raises: the division by initial_volume = 0 (line 548),
\* ambient_temps[day] past the end of the list (line 555), or the lookup of an
\* unknown solar_radiation in calculate_enhanced_bog_rate
ProfileRaise ==
    /\ fn = "calculate_daily_bog_profile"
    /\ pc = "loop"
    /\ day < PyInt(args.voyage_days)
    /\ \/ /\ args.initial_volume = Zero
          /\ exc' = "ZeroDivisionError"
       \/ /\ args.initial_volume # Zero
          /\ day >= args.readings
          /\ exc' = "IndexError"
       \/ /\ args.initial_volume # Zero
          /\ day < args.readings
          /\ args.solar_radiation \notin SolarKeys
          /\ exc' = "KeyError"
    /\ pc' = "raised"
    /\ UNCHANGED <<fn, args, remaining_volume, day, daily_data, calls, legs, session>>

\* range(int(voyage_days)) is exhausted: return pd.DataFrame(daily_data)
ProfileReturn ==
    /\ fn = "calculate_daily_bog_profile"
    /\ pc = "loop"
    /\ day >= PyInt(args.voyage_days)
    /\ pc' = "returned"
    /\ UNCHANGED <<fn, args, remaining_volume, day, daily_data, exc, calls, legs, session>>

\* ------------------------------------------------------------------------
\* bog_calculator2.py: calculate_economics, applied to the returned profile
\* ------------------------------------------------------------------------

\* variant: only the first day of the profile enters the totals
column_sum_first_day(data, column) == IF data = <<>> THEN Zero ELSE data[1][column]

\* daily_data[column].sum()
RECURSIVE column_sum(_, _)
column_sum(data, column) ==
    IF data = <<>> THEN Zero
    ELSE RAdd(column_sum(SubSeq(data, 1, Len(data) - 1), column), data[Len(data)][column])

calculate_economics(data, lng_price, bunker_price, electricity_cost, power_consumption) ==
    LET total_bog_generated == column_sum(data, "bog_generated")
        total_bog_consumed == column_sum(data, "bog_consumed")
        total_bog_reliquefied == column_sum(data, "bog_reliquefied")
        lng_cost == RMul(total_bog_generated, lng_price)
        fuel_savings == RMul(total_bog_consumed, bunker_price)
        reliq_cost == RMul(RMul(RMul(total_bog_reliquefied, power_consumption), electricity_cost), R(24))
    IN  Ok([lng_value_lost |-> lng_cost,
            fuel_savings |-> fuel_savings,
            reliq_cost |-> reliq_cost,
            net_benefit |-> RSub(fuel_savings, reliq_cost),
            total_bog_generated |-> total_bog_generated,
            total_bog_consumed |-> total_bog_consumed,
            total_bog_reliquefied |-> total_bog_reliquefied])

\* prices: the widgets start at 0, the function itself takes any float
LngPrices == {One}

BunkerPrices == {R(2), R(-1)}

ElectricityCosts == {Frac(1, 2)}

PowerConsumptions == {One}

EconomicsArgs ==
    [lng_price : LngPrices, bunker_price : BunkerPrices,
     electricity_cost : ElectricityCosts, power_consumption : PowerConsumptions]

\* economics = calculate_economics(daily_data, lng_price, bunker_price,
\* electricity_cost, power_consumption) on the profile calculate_daily_bog
\* returned
Economics ==
    /\ fn = "calculate_daily_bog"
    /\ pc = "returned"
    /\ \E a \in EconomicsArgs :
         calls' = Append(calls, [fn |-> "calculate_economics", args |-> a,
                                 ret |-> calculate_economics(daily_data, a.lng_price, a.bunker_price, a.electricity_cost, a.power_consumption)])
    /\ pc' = "summarized"
    /\ UNCHANGED <<fn, args, remaining_volume, day, daily_data, exc, legs, session>>

\* ------------------------------------------------------------------------
\* bog_calculator.py: calculate_economic_metrics, applied to the totals of the
\* returned profile
\* ------------------------------------------------------------------------

\* variant: the auxiliary power is not charged
total_costs_reliq_only(power_costs) == power_costs.reliq

\* total_costs = sum(power_costs.values())
total_costs_of(power_costs) == RAdd(power_costs.reliq, power_costs.auxiliary)

calculate_economic_metrics(vessel_type, power_requirements, bog_generated, bog_reliquefied, lng_price, bunker_price, electricity_cost, voyage_days, carbon_price) ==
    IF vessel_type \notin DOMAIN vessel_configs
    THEN Raise("KeyError")
    ELSE LET config == vessel_configs[vessel_type]
             power_costs ==
                 [reliq |-> RMul(RMul(RMul(power_requirements.reliq_power, R(24)), electricity_cost), voyage_days),
                  auxiliary |-> RMul(RMul(RMul(power_requirements.auxiliary_power, R(24)), electricity_cost), voyage_days)]
             lng_metrics ==
                 [saved |-> RMul(bog_reliquefied, lng_price),
                  lost |-> RMul(RSub(bog_generated, bog_reliquefied), lng_price)]
             fuel_metrics ==
                 [consumption_savings |-> RMul(RMul(RSub(config.daily_consumption, power_requirements.engine_power), bunker_price), voyage_days),
                  efficiency_savings |-> RMul(RMul(power_requirements.efficiency.engine, bunker_price), voyage_days)]
             emissions_factor ==
                 IF "emissions_reduction" \in DOMAIN config
                 THEN config.emissions_reduction ELSE Frac(10, 100)
             emissions_savings ==
                 RMul(RMul(RMul(emissions_factor, config.daily_consumption), voyage_days), carbon_price)
             total_costs == total_costs_of(power_costs)
             total_savings ==
                 RAdd(RAdd(lng_metrics.saved,
                           RAdd(fuel_metrics.consumption_savings, fuel_metrics.efficiency_savings)),
                      emissions_savings)
         IN  Ok([power_costs |-> power_costs,
                 lng_metrics |-> lng_metrics,
                 fuel_metrics |-> fuel_metrics,
                 emissions_value |-> emissions_savings,
                 total_costs |-> total_costs,
                 total_savings |-> total_savings,
                 net_benefit |-> RSub(total_savings, total_costs)])

\* results of calculate_power_requirements handed on as power_requirements
\* (power in MW, engine efficiency): without and with reliquefaction power
PowerRequirements ==
    {[reliq_power |-> p, engine_power |-> R(27), auxiliary_power |-> One,
      efficiency |-> [engine |-> Frac(1, 2)]] : p \in {Zero, R(3)}}

\* vessel_config.get('reliq_efficiency', 0.0) of the vessels
ReliqShares == {Zero, Frac(90, 100)}

CarbonPrices == {R(30)}

MetricsArgs ==
    [power_requirements : PowerRequirements, reliq_share : ReliqShares,
     lng_price : LngPrices, bunker_price : BunkerPrices,
     electricity_cost : ElectricityCosts, carbon_price : CarbonPrices]

\* economics = calculate_economic_metrics(...) on the profile
\* calculate_daily_bog_profile returned: bog_generated is the sum of its
\* bog_volume column, bog_reliquefied that sum times the vessel's
\* reliq_efficiency
ProfileEconomics ==
    /\ fn = "calculate_daily_bog_profile"
    /\ pc = "returned"
    /\ daily_data # <<>>
    /\ \E a \in MetricsArgs :
         LET bog_generated == column_sum(daily_data, "bog_volume")
             bog_reliquefied == RMul(bog_generated, a.reliq_share)
             call_args == [vessel_type |-> args.vessel_type,
                           power_requirements |-> a.power_requirements,
                           bog_generated |-> bog_generated,
                           bog_reliquefied |-> bog_reliquefied,
                           lng_price |-> a.lng_price,
                           bunker_price |-> a.bunker_price,
                           electricity_cost |-> a.electricity_cost,
                           voyage_days |-> args.voyage_days,
                           carbon_price |-> a.carbon_price]
         IN  calls' = Append(calls, [fn |-> "calculate_economic_metrics", args |-> call_args,
                                     ret |-> calculate_economic_metrics(args.vessel_type, a.power_requirements, bog_generated, bog_reliquefied, a.lng_price, a.bunker_price, a.electricity_cost, args.voyage_days, a.carbon_price)])
    /\ pc' = "summarized"
    /\ UNCHANGED <<fn, args, remaining_volume, day, daily_data, exc, legs, session>>

\* ------------------------------------------------------------------------
\* The simulators' specification: one call of either simulator
\* ------------------------------------------------------------------------

Init == CallDailyBog \/ CallDailyBogProfile

Next ==
    \/ DailyBogDay
    \/ DailyBogRaise
    \/ DailyBogReturn
    \/ ProfileDay
    \/ ProfileRaise
    \/ ProfileReturn

Spec == Init /\ [][Next]_vars

\* ------------------------------------------------------------------------
\* The economics specification: one call of either simulator, then the
\* economics function of its module applied to the profile it returned
\* ------------------------------------------------------------------------

\* voyage lengths whose profiles are summarized: the sums and products over a
\* profile of more than two days leave 32-bit integers
EconomicsVoyageDays == {Zero, One, Frac(3, 2), R(2)}

EconomicsDailyBogArgs == {[a EXCEPT !.days = d] : a \in DailyBogArgs, d \in EconomicsVoyageDays}

EconomicsProfileArgs == {[a EXCEPT !.voyage_days = d] : a \in ProfileArgs, d \in EconomicsVoyageDays}

InitEconomics ==
    /\ \/ fn = "calculate_daily_bog" /\ args \in EconomicsDailyBogArgs
       \/ fn = "calculate_daily_bog_profile" /\ args \in EconomicsProfileArgs
    /\ remaining_volume = args.initial_volume
    /\ day = 0
    /\ daily_data = <<>>
    /\ pc = "loop"
    /\ exc = "none"
    /\ calls = <<>>
    /\ legs = <<>>
    /\ session = <<>>

NextEconomics ==
    \/ DailyBogDay
    \/ DailyBogRaise
    \/ DailyBogReturn
    \/ ProfileDay
    \/ ProfileRaise
    \/ ProfileReturn
    \/ Economics
    \/ ProfileEconomics

SpecEconomics == InitEconomics /\ [][NextEconomics]_vars

\* ------------------------------------------------------------------------
\* The rate models' specification: calls of the four rate functions; the
\* state keeps the calls made, a call following another one repeats its
\* function and changes at most one of ambient_temp, wave_height and
\* solar_radiation
\* ------------------------------------------------------------------------

RateBases == {Zero, Frac(15, 100), R(50)}

\* 1013 mbar (factor 1) and 1266.25 mbar (factor 1.025)
RatePressures == {R(1013), Frac(5065, 4)}

RateLevels == {R(100), Zero}

\* 19.5, 44.5, -5.5 and the extreme -180.5 degrees C
RateTemps == {Frac(39, 2), Frac(89, 2), Frac(-11, 2), Frac(-361, 2)}

RateWaves == {Zero, One, R(4)}

\* the additive model's sea states: below 1 m, below 2 m, below 4 m, above
AdjustedWaves == {Zero, One, Frac(9, 4), R(4)}

RateSolars == {"Low", "Medium", "High", "Extreme"}

\* tank_age: 5.0 is the parameter's default
RateTankAges == {R(5), Zero}

BogRateArgs ==
    [base_rate : RateBases, tank_pressure : RatePressures, tank_level : RateLevels,
     ambient_temp : RateTemps, wave_height : RateWaves, solar_radiation : RateSolars]

\* the vessel-aware functions are called with a full tank; the aging factor
\* adds digits, so the calls of the function that applies it leave out one
\* temperature
EnhancedLevels == {R(100)}

EnhancedTemps == {Frac(39, 2), Frac(89, 2), Frac(-361, 2)}

EnhancedArgs ==
    [base_rate : RateBases, tank_pressure : RatePressures, tank_level : EnhancedLevels,
     ambient_temp : EnhancedTemps, wave_height : RateWaves, solar_radiation : RateSolars,
     vessel_type : VesselTypes, is_ballast : BOOLEAN, tank_age : RateTankAges]

Enhanced3Args ==
    [base_rate : RateBases, tank_pressure : RatePressures, tank_level : EnhancedLevels,
     ambient_temp : RateTemps, wave_height : RateWaves, solar_radiation : RateSolars,
     vessel_type : VesselTypes, is_ballast : BOOLEAN]

AdjustedArgs ==
    [cargo_volume : {Zero, R(1000)}, base_bog_rate : RateBases, time : {R(2)},
     ambient_temp : RateTemps, wave_height : AdjustedWaves, solar_radiation : RateSolars]

\* calls made in one behaviour
MaxCalls == 2

\* the argument records a call may take: any of all when nothing was called
\* yet, else those of the last call c with at most one of ambient_temp,
\* wave_height and solar_radiation changed, and only for the function c called
NextArgs(f, all, temps, waves) ==
    IF calls = <<>> THEN all
    ELSE IF Len(calls) >= MaxCalls THEN {}
    ELSE LET c == calls[Len(calls)]
         IN  IF c.fn # f THEN {}
             ELSE {[c.args EXCEPT !.ambient_temp = t] : t \in temps}
                  \cup {[c.args EXCEPT !.wave_height = w] : w \in waves}
                  \cup {[c.args EXCEPT !.solar_radiation = s] : s \in RateSolars}

Record(f, a, r) ==
    Append(calls, [fn |-> f, args |-> a, ret |-> r])

RateIdle ==
    /\ fn = "none"
    /\ args = <<>>
    /\ remaining_volume = Zero
    /\ day = 0
    /\ daily_data = <<>>
    /\ pc = "idle"
    /\ exc = "none"
    /\ legs = <<>>
    /\ session = <<>>

CallBogRate ==
    /\ \E a \in NextArgs("calculate_bog_rate", BogRateArgs, RateTemps, RateWaves) :
         /\ calls' = Record("calculate_bog_rate", a,
                calculate_bog_rate(a.base_rate, a.tank_pressure, a.tank_level, a.ambient_temp, a.wave_height, a.solar_radiation))
    /\ UNCHANGED <<fn, args, remaining_volume, day, daily_data, pc, exc, legs, session>>

CallEnhancedBogRate ==
    /\ \E a \in NextArgs("calculate_enhanced_bog_rate", EnhancedArgs, EnhancedTemps, RateWaves) :
         /\ calls' = Record("calculate_enhanced_bog_rate", a,
                calculate_enhanced_bog_rate(a.base_rate, a.tank_pressure, a.tank_level, a.ambient_temp, a.wave_height, a.solar_radiation, a.vessel_type, a.is_ballast, a.tank_age))
    /\ UNCHANGED <<fn, args, remaining_volume, day, daily_data, pc, exc, legs, session>>

CallEnhancedBogRate3 ==
    /\ \E a \in NextArgs("calculate_enhanced_bog_rate3", Enhanced3Args, RateTemps, RateWaves) :
         /\ calls' = Record("calculate_enhanced_bog_rate3", a,
                calculate_enhanced_bog_rate3(a.base_rate, a.tank_pressure, a.tank_level, a.ambient_temp, a.wave_height, a.solar_radiation, a.vessel_type, a.is_ballast))
    /\ UNCHANGED <<fn, args, remaining_volume, day, daily_data, pc, exc, legs, session>>

CallAdjustedBog ==
    /\ \E a \in NextArgs("calculate_adjusted_bog", AdjustedArgs, RateTemps, AdjustedWaves) :
         /\ calls' = Record("calculate_adjusted_bog", a,
                calculate_adjusted_bog(a.cargo_volume, a.base_bog_rate, a.time, a.ambient_temp, a.wave_height, a.solar_radiation))
    /\ UNCHANGED <<fn, args, remaining_volume, day, daily_data, pc, exc, legs, session>>

InitRate == RateIdle /\ calls = <<>>

NextRate ==
    \/ CallBogRate
    \/ CallEnhancedBogRate
    \/ CallEnhancedBogRate3
    \/ CallAdjustedBog

SpecRate == InitRate /\ [][NextRate]_vars

\* ------------------------------------------------------------------------
\* A session of rate-function calls in any order
\* ------------------------------------------------------------------------

\* calls made in one session
MaxSession == 4

SessionBogRateArgs ==
    [base_rate : {Frac(15, 100)}, tank_pressure : {R(1013)}, tank_level : {R(100)},
     ambient_temp : {Frac(39, 2), Frac(89, 2)}, wave_height : {One}, solar_radiation : {"Low", "High"}]

SessionEnhancedArgs ==
    [base_rate : {Frac(15, 100)}, tank_pressure : {R(1013)}, tank_level : {R(100)},
     ambient_temp : {Frac(89, 2)}, wave_height : {One}, solar_radiation : {"High"},
     vessel_type : VesselTypes, is_ballast : BOOLEAN, tank_age : {R(5)}]

\* variant: the function keeps a running total, each result adds the result
\* of the call before it
SessionBogRateAccumulating ==
    /\ Len(calls) < MaxSession
    /\ \E a \in SessionBogRateArgs :
         LET r == calculate_bog_rate(a.base_rate, a.tank_pressure, a.tank_level, a.ambient_temp, a.wave_height, a.solar_radiation)
             last == calls[Len(calls)]
         IN  calls' = Record("calculate_bog_rate", a,
                 IF calls # <<>> /\ last.fn = "calculate_bog_rate" THEN Ok(RAdd(r.val, last.ret.val)) ELSE r)
    /\ UNCHANGED <<fn, args, remaining_volume, day, daily_data, pc, exc, legs, session>>

\* calculate_bog_rate reads its parameters and writes its locals only
SessionBogRate ==
    /\ Len(calls) < MaxSession
    /\ \E a \in SessionBogRateArgs :
         calls' = Record("calculate_bog_rate", a,
             calculate_bog_rate(a.base_rate, a.tank_pressure, a.tank_level, a.ambient_temp, a.wave_height, a.solar_radiation))
    /\ UNCHANGED <<fn, args, remaining_volume, day, daily_data, pc, exc, legs, session>>

\* calculate_enhanced_bog_rate reads its parameters and the table that
\* get_vessel_configs() returns, and writes its locals only
SessionEnhancedBogRate ==
    /\ Len(calls) < MaxSession
    /\ \E a \in SessionEnhancedArgs :
         calls' = Record("calculate_enhanced_bog_rate", a,
             calculate_enhanced_bog_rate(a.base_rate, a.tank_pressure, a.tank_level, a.ambient_temp, a.wave_height, a.solar_radiation, a.vessel_type, a.is_ballast, a.tank_age))
    /\ UNCHANGED <<fn, args, remaining_volume, day, daily_data, pc, exc, legs, session>>

NextSession ==
    \/ SessionBogRate
    \/ SessionEnhancedBogRate

SpecSession == InitRate /\ [][NextSession]_vars

\* ------------------------------------------------------------------------
\* bog_calculator2.py: show_bog_calculator's two voyage legs, each a call of
\* calculate_daily_bog with its own lists of readings, their loop iterations
\* taken in any order
\* ------------------------------------------------------------------------

LegNames == {"Laden", "Ballast"}

\* ambient_temps and wave_heights of a leg, one reading per day
LegTemps == {<<Frac(39, 2), Frac(89, 2)>>, <<Frac(89, 2), Frac(39, 2)>>}

LegWaves == {<<Zero, R(50)>>}

LegArgs ==
    [initial_volume : {R(4), Zero}, days : {One, R(MaxDays)}, base_bog_rate : {R(50)},
     solar_radiation : {"Low"}, tank_pressure : {R(1013)},
     engine_consumption : {Zero, One}, reliq_capacity : {One},
     reliq_efficiency : {Frac(1, 2)}, ambient_temps : LegTemps, wave_heights : LegWaves]

\* the locals of a call at its entry
leg_entry(a) ==
    [args |-> a, remaining_volume |-> a.initial_volume, day |-> 0,
     daily_data |-> <<>>, pc |-> "loop", exc |-> "none"]

InitLegs ==
    /\ fn = "none"
    /\ args = <<>>
    /\ remaining_volume = Zero
    /\ day = 0
    /\ daily_data = <<>>
    /\ pc = "idle"
    /\ exc = "none"
    /\ calls = <<>>
    /\ session = <<>>
    /\ \E laden \in LegArgs, ballast \in LegArgs :
         legs = [l \in LegNames |-> IF l = "Laden" THEN leg_entry(laden) ELSE leg_entry(ballast)]

\* variant: remaining_volume is one variable of the module, the one the laden
\* leg writes
leg_remaining_shared(l) == legs["Laden"].remaining_volume

\* remaining_volume is a local of the call
leg_remaining(l) == legs[l].remaining_volume

\* the iteration of leg l can complete
LegCanStep(l) ==
    LET me == legs[l]
    IN  /\ me.pc = "loop"
        /\ me.day < PyInt(me.args.days)
        /\ me.args.initial_volume # Zero
        /\ me.day < Len(me.args.ambient_temps)
        /\ me.day < Len(me.args.wave_heights)
        /\ me.args.solar_radiation \in SolarKeys

\* one iteration of leg l's `for day in range(int(days))` that completes
LegDay(l) ==
    /\ LegCanStep(l)
    /\ LET me == legs[l]
           remaining == leg_remaining(l)
           temperature == me.args.ambient_temps[me.day + 1]
           wave_height == me.args.wave_heights[me.day + 1]
           tank_level == tank_level_of(remaining, me.args.initial_volume)
           bog_rate == calculate_bog_rate(me.args.base_bog_rate, me.args.tank_pressure, tank_level, temperature, wave_height, me.args.solar_radiation).val
           rec == daily_bog_record(me.day, remaining, tank_level, bog_rate, temperature, wave_height, me.args)
       IN  legs' = [legs EXCEPT ![l] = [me EXCEPT !.daily_data = Append(me.daily_data, rec),
                                                 !.remaining_volume = rec.remaining_volume,
                                                 !.day = me.day + 1]]
    /\ UNCHANGED <<fn, args, remaining_volume, day, daily_data, pc, exc, calls, session>>

\* an iteration of leg l that raises (lines 107, 114, 115, 83)
LegRaise(l) ==
    /\ legs[l].pc = "loop"
    /\ legs[l].day < PyInt(legs[l].args.days)
    /\ ~LegCanStep(l)
    /\ legs' = [legs EXCEPT ![l].pc = "raised",
                            ![l].exc = IF legs[l].args.initial_volume = Zero THEN "ZeroDivisionError"
                                       ELSE IF legs[l].args.solar_radiation \notin SolarKeys THEN "KeyError"
                                       ELSE "IndexError"]
    /\ UNCHANGED <<fn, args, remaining_volume, day, daily_data, pc, exc, calls, session>>

\* leg l's range(int(days)) is exhausted: return pd.DataFrame(daily_data)
LegReturn(l) ==
    /\ legs[l].pc = "loop"
    /\ legs[l].day >= PyInt(legs[l].args.days)
    /\ legs' = [legs EXCEPT ![l].pc = "returned"]
    /\ UNCHANGED <<fn, args, remaining_volume, day, daily_data, pc, exc, calls, session>>

LadenDay == LegDay("Laden")

LadenRaise == LegRaise("Laden")

LadenReturn == LegReturn("Laden")

BallastDay == LegDay("Ballast")

BallastRaise == LegRaise("Ballast")

BallastReturn == LegReturn("Ballast")

NextLegs ==
    \/ LadenDay
    \/ LadenRaise
    \/ LadenReturn
    \/ BallastDay
    \/ BallastRaise
    \/ BallastReturn

SpecLegs == InitLegs /\ [][NextLegs]_vars

\* the records calculate_daily_bog appends when the call with arguments a runs
\* from day d with remaining volume `remaining` to its end, after `data`
RECURSIVE daily_bog_alone(_, _, _, _)
daily_bog_alone(a, d, remaining, data) ==
    IF \/ d >= PyInt(a.days)
       \/ a.initial_volume = Zero
       \/ d >= Len(a.ambient_temps)
       \/ d >= Len(a.wave_heights)
       \/ a.solar_radiation \notin SolarKeys
    THEN data
    ELSE LET tank_level == tank_level_of(remaining, a.initial_volume)
             bog_rate == calculate_bog_rate(a.base_bog_rate, a.tank_pressure, tank_level, a.ambient_temps[d + 1], a.wave_heights[d + 1], a.solar_radiation).val
             rec == daily_bog_record(d, remaining, tank_level, bog_rate, a.ambient_temps[d + 1], a.wave_heights[d + 1], a)
         IN  daily_bog_alone(a, d + 1, rec.remaining_volume, Append(data, rec))

\* ------------------------------------------------------------------------
\* The flow-diagram split, the heel ranges and the consumption totals
\* ------------------------------------------------------------------------

\* bog_calculator3.py, "Calculate BOG distribution": the bog_data of the flow diagram
bog_distribution(daily_bog, reliq_capacity, engine_consumption) ==
    [bog_reliquefied |-> RMin(daily_bog, RMul(reliq_capacity, R(24))),
     bog_consumed |-> RMin(daily_bog, engine_consumption),
     bog_to_gcu |-> RMax(Zero, RSub(RSub(daily_bog, RMul(reliq_capacity, R(24))), engine_consumption))]

\* bog_calculator.py, create_sankey_diagram(bog_data=...): the split of the
\* profile's total BOG
profile_bog_distribution(total_bog, reliq_efficiency, engine_power, voyage_days) ==
    [bog_reliquefied |-> RMul(total_bog, reliq_efficiency),
     bog_consumed |-> RMul(engine_power, voyage_days),
     bog_to_gcu |-> RMax(Zero, RSub(total_bog, RMul(engine_power, voyage_days)))]

calculate_heel_requirements(tank_capacity, voyage_days, daily_consumption, safety_factor) ==
    LET min_cooling_heel == RMul(tank_capacity, Frac(8, 1000))
        min_consumption_heel == RMul(RMul(daily_consumption, voyage_days), safety_factor)
        max_heel == RMul(tank_capacity, Frac(2, 100))
        min_heel == RMax(min_cooling_heel, min_consumption_heel)
    IN  [min_heel |-> min_heel,
         max_heel |-> max_heel,
         recommended_heel |-> RDiv(RAdd(min_heel, max_heel), R(2))]

calculate_optimal_heel(vessel_config, voyage_days, ambient_temp, wave_height, safety_factor) ==
    LET min_cooling_heel == RMul(vessel_config.tank_capacity, Frac(8, 1000))
        daily_consumption == vessel_config.daily_consumption
        consumption_heel == RMul(RMul(daily_consumption, voyage_days), safety_factor)
        heel_temp_factor == RAdd(One, RDiv(RSub(ambient_temp, Frac(195, 10)), R(100)))
        heel_wave_factor == RAdd(One, RMul(wave_height, Frac(2, 100)))
        adjusted_min_heel == RMax(min_cooling_heel, RMul(RMul(consumption_heel, heel_temp_factor), heel_wave_factor))
        max_heel == RMul(vessel_config.tank_capacity, Frac(2, 100))
        recommended_heel == RMin(RDiv(RAdd(adjusted_min_heel, max_heel), R(2)), max_heel)
    IN  [min_heel |-> adjusted_min_heel,
         max_heel |-> max_heel,
         recommended_heel |-> recommended_heel,
         factors |-> [temperature |-> heel_temp_factor, wave |-> heel_wave_factor, safety |-> safety_factor]]

\* lng_heel_management.py: calculate_totals (0 is the int 0 of `return 0`)
heel_calculate_totals(consumption_rate, distance, speed) ==
    IF RLt(Zero, speed)
    THEN LET time == RDiv(distance, speed)
             total == RMul(consumption_rate, time)
         IN  PyRound(total, 100)
    ELSE Zero

\* bog_calculator1.py: calculate_totals, the pair (total, time_days)
calculate_totals(consumption_rate, distance, speed) ==
    IF RLt(Zero, speed)
    THEN LET time == RDiv(distance, speed)
             time_days == RDiv(time, R(24))
             total == RMul(consumption_rate, time_days)
         IN  <<PyRound(total, 100), time_days>>
    ELSE <<Zero, Zero>>

\* the calculator specification: one of the functions above is given
\* arguments and applied to them; the two calculate_totals are applied to the
\* same arguments, in either order

\* m3 of BOG in a day
DailyBogs == {Zero, R(10), R(100)}

\* reliquefaction capacity, tons per hour
SplitReliqCapacities == {Zero, Frac(1, 4), R(3)}

SplitEngineConsumptions == {Zero, R(5), R(130)}

BogDistributionArgs ==
    [daily_bog : DailyBogs, reliq_capacity : SplitReliqCapacities, engine_consumption : SplitEngineConsumptions]

ProfileBogDistributionArgs ==
    [total_bog : DailyBogs, reliq_efficiency : {Zero, Frac(90, 100)}, engine_power : {Zero, R(27)},
     voyage_days : {One, R(15)}]

\* voyage lengths in days; 15.0 is the callers' estimate
HeelVoyageDays == {Zero, R(15), R(40)}

\* 1.2 is the parameter's default
SafetyFactors == {One, Frac(12, 10)}

HeelRequirementsArgs ==
    [tank_capacity : {vessel_configs[v].tank_capacity : v \in VesselTypes},
     voyage_days : HeelVoyageDays,
     daily_consumption : {Zero} \cup {vessel_configs[v].daily_consumption : v \in VesselTypes},
     safety_factor : SafetyFactors]

OptimalHeelArgs ==
    [vessel_config : {vessel_configs[v] : v \in VesselTypes}, voyage_days : HeelVoyageDays,
     ambient_temp : {Frac(195, 10), Frac(445, 10)}, wave_height : {Zero, R(4)},
     safety_factor : SafetyFactors]

\* consumption per day, distance in nautical miles, speed in knots
TotalsArgs ==
    [consumption_rate : {Zero, Frac(1, 10), R(24)}, distance : {Zero, R(240), R(1000)},
     speed : {Zero, R(7), R(10)}]

CalcIdle ==
    /\ remaining_volume = Zero
    /\ day = 0
    /\ daily_data = <<>>
    /\ pc = "idle"
    /\ exc = "none"
    /\ calls = <<>>
    /\ legs = <<>>
    /\ session = <<>>

InitCalc ==
    /\ \/ fn = "bog_distribution" /\ args \in BogDistributionArgs
       \/ fn = "profile_bog_distribution" /\ args \in ProfileBogDistributionArgs
       \/ fn = "calculate_heel_requirements" /\ args \in HeelRequirementsArgs
       \/ fn = "calculate_optimal_heel" /\ args \in OptimalHeelArgs
       \/ fn = "calculate_totals" /\ args \in TotalsArgs
    /\ CalcIdle

Called(f) == \E i \in 1..Len(calls) : calls[i].fn = f

Apply(f, r) ==
    /\ ~Called(f)
    /\ calls' = Record(f, args, r)
    /\ UNCHANGED <<fn, args, remaining_volume, day, daily_data, pc, exc, legs, session>>

ApplyBogDistribution ==
    /\ fn = "bog_distribution"
    /\ Apply("bog_distribution", bog_distribution(args.daily_bog, args.reliq_capacity, args.engine_consumption))

ApplyProfileBogDistribution ==
    /\ fn = "profile_bog_distribution"
    /\ Apply("profile_bog_distribution", profile_bog_distribution(args.total_bog, args.reliq_efficiency, args.engine_power, args.voyage_days))

ApplyHeelRequirements ==
    /\ fn = "calculate_heel_requirements"
    /\ Apply("calculate_heel_requirements", calculate_heel_requirements(args.tank_capacity, args.voyage_days, args.daily_consumption, args.safety_factor))

ApplyOptimalHeel ==
    /\ fn = "calculate_optimal_heel"
    /\ Apply("calculate_optimal_heel", calculate_optimal_heel(args.vessel_config, args.voyage_days, args.ambient_temp, args.wave_height, args.safety_factor))

ApplyHeelTotals ==
    /\ fn = "calculate_totals"
    /\ Apply("lng_heel_management.calculate_totals", heel_calculate_totals(args.consumption_rate, args.distance, args.speed))

ApplyTotals ==
    /\ fn = "calculate_totals"
    /\ Apply("bog_calculator1.calculate_totals", calculate_totals(args.consumption_rate, args.distance, args.speed))

NextCalc ==
    \/ ApplyBogDistribution
    \/ ApplyProfileBogDistribution
    \/ ApplyHeelRequirements
    \/ ApplyOptimalHeel
    \/ ApplyHeelTotals
    \/ ApplyTotals

SpecCalc == InitCalc /\ [][NextCalc]_vars

\* ------------------------------------------------------------------------
\* bog_calculator.py: the Analysis tab of create_voyage_section_enhanced, run
\* for one leg of the vessel selected in show_bog_calculator
\* ------------------------------------------------------------------------

\* voyage_days = distance / (speed * 24.0), or 0.0
SectionVoyageDays == {Zero, Frac(1, 2), One, R(2)}

\* "Initial Cargo Volume (m3)" or "Heel Quantity (m3)"
SectionCargoes == {Zero, R(4)}

\* vessel_type="MEGI" if 'MEGI' in vessel_config else "DFDE": membership in
\* the keys of the selected vessel's configuration
section_vessel_type(vessel_config) ==
    IF "MEGI" \in DOMAIN vessel_config THEN "MEGI" ELSE "DFDE"

\* the section is entered with the widgets' values
InitSection ==
    /\ fn = "none"
    /\ args = <<>>
    /\ remaining_volume = Zero
    /\ day = 0
    /\ daily_data = <<>>
    /\ pc = "idle"
    /\ exc = "none"
    /\ calls = <<>>
    /\ legs = <<>>
    /\ \E selected \in VesselTypes, is_ballast \in BOOLEAN, voyage_days \in SectionVoyageDays, initial_cargo \in SectionCargoes, tank_age \in TankAges :
         session = [vessel_type |-> selected,
                    vessel_config |-> vessel_configs[selected],
                    is_ballast |-> is_ballast,
                    voyage_days |-> voyage_days,
                    initial_cargo |-> initial_cargo,
                    solar_radiation |-> "Low",
                    tank_pressure |-> R(1013),
                    tank_age |-> tank_age]

\* `if voyage_days > 0:` is false, nothing is calculated
SectionSkip ==
    /\ pc = "idle"
    /\ session # <<>>
    /\ ~RLt(Zero, session.voyage_days)
    /\ pc' = "skipped"
    /\ UNCHANGED <<fn, args, remaining_volume, day, daily_data, exc, calls, legs, session>>

\* `if voyage_days > 0:` holds: int(voyage_days) readings are drawn and
\* calculate_daily_bog_profile is entered
SectionSimulate ==
    /\ pc = "idle"
    /\ session # <<>>
    /\ RLt(Zero, session.voyage_days)
    /\ fn' = "calculate_daily_bog_profile"
    /\ args' = [initial_volume |-> session.initial_cargo,
                voyage_days |-> session.voyage_days,
                vessel_type |-> section_vessel_type(session.vessel_config),
                solar_radiation |-> session.solar_radiation,
                tank_pressure |-> session.tank_pressure,
                tank_age |-> session.tank_age,
                readings |-> PyInt(session.voyage_days)]
    /\ remaining_volume' = session.initial_cargo
    /\ day' = 0
    /\ daily_data' = <<>>
    /\ pc' = "loop"
    /\ UNCHANGED <<exc, calls, legs, session>>

\* the profile came back without a day: daily_profile['bog_volume'] (line
\* 1199) looks up a column the empty DataFrame does not have
SectionKeyError ==
    /\ session # <<>>
    /\ fn = "calculate_daily_bog_profile"
    /\ pc = "returned"
    /\ daily_data = <<>>
    /\ pc' = "raised"
    /\ exc' = "KeyError"
    /\ UNCHANGED <<fn, args, remaining_volume, day, daily_data, calls, legs, session>>

NextSection ==
    \/ SectionSkip
    \/ SectionSimulate
    \/ ProfileDay
    \/ ProfileRaise
    \/ ProfileReturn
    \/ SectionKeyError
    \/ ProfileEconomics

SpecSection == InitSection /\ [][NextSection]_vars

\* ------------------------------------------------------------------------
\* cii_calculator.py: the CII calculator page; one action is one rerun of
\* show_cii_calculator
\* ------------------------------------------------------------------------

\* reruns of the page in one browser session
MaxRuns == 3

\* Python's None where a text is expected, and where a number or a dict is
NoText == "None"

None == <<>>

EMISSION_FACTORS ==
    [VLSFO |-> Frac(3151, 1000), LSMGO |-> Frac(3206, 1000), LNG |-> Frac(275, 100)]

\* the keys of VESSEL_TYPE_MAPPING
MappedVesselTypes ==
    {"ASPHALT/BITUMEN TANKER", "BULK CARRIER", "CEMENT CARRIER", "CHEM/PROD TANKER", "CHEMICAL TANKER", "Chemical/Products Tanker", "Combination Carrier", "CONTAINER", "Container Ship", "Container/Ro-Ro Ship", "Crude Oil Tanker", "Gas Carrier", "General Cargo Ship", "LNG CARRIER", "LPG CARRIER", "LPG Tanker", "OIL TANKER", "Products Tanker", "Refrigerated Cargo Ship", "Ro-Ro Ship", "Vehicle Carrier"}

VESSEL_TYPE_MAPPING ==
    [v \in MappedVesselTypes |->
        CASE v \in {"ASPHALT/BITUMEN TANKER", "CHEM/PROD TANKER", "CHEMICAL TANKER", "Chemical/Products Tanker", "Crude Oil Tanker", "OIL TANKER", "Products Tanker"} -> "tanker"
          [] v \in {"BULK CARRIER", "CEMENT CARRIER"} -> "bulk_carrier"
          [] v = "Combination Carrier" -> "combination_carrier"
          [] v \in {"CONTAINER", "Container Ship"} -> "container_ship"
          [] v \in {"Container/Ro-Ro Ship", "Ro-Ro Ship"} -> "ro_ro_cargo_ship"
          [] v \in {"Gas Carrier", "LPG CARRIER", "LPG Tanker"} -> "gas_carrier"
          [] v = "General Cargo Ship" -> "general_cargo_ship"
          [] v = "LNG CARRIER" -> "lng_carrier"
          [] v = "Refrigerated Cargo Ship" -> "refrigerated_cargo_carrier"
          [] v = "Vehicle Carrier" -> "ro_ro_cargo_ship_vc"]

\* VESSEL_TYPE_MAPPING.get(vessel_type)
mapping_get(vessel_type) ==
    IF vessel_type \in DOMAIN VESSEL_TYPE_MAPPING THEN VESSEL_TYPE_MAPPING[vessel_type] ELSE NoText

\* the capacity of the vessels in the database rows below
VesselCapacity == R(100000)

\* params of calculate_reference_cii; each line a * (capacity ** -c) is kept
\* as its value at VesselCapacity, to six digits
reference_params ==
    [bulk_carrier |-> Frac(368329, 100000),
     gas_carrier |-> Frac(636082, 100000),
     tanker |-> Frac(467639, 100000),
     container_ship |-> Frac(712101, 100000),
     general_cargo_ship |-> Frac(350303, 100000),
     refrigerated_cargo_carrier |-> Frac(754671, 100000),
     lng_carrier |-> Frac(624796, 100000)]

\* the mapping's values are lower case already, so ship_type.lower() is
\* ship_type
calculate_reference_cii(capacity, ship_type) ==
    IF ship_type \in DOMAIN reference_params THEN Ok(reference_params[ship_type]) ELSE Raise("ValueError")

reduction_factors ==
    (2023 :> Frac(95, 100)) @@ (2024 :> Frac(93, 100)) @@ (2025 :> Frac(91, 100)) @@ (2026 :> Frac(89, 100))

calculate_required_cii(reference_cii, year) ==
    RMul(reference_cii, IF year \in DOMAIN reduction_factors THEN reduction_factors[year] ELSE One)

calculate_cii_rating(attained_cii, required_cii) ==
    IF RLe(attained_cii, required_cii) THEN "A"
    ELSE IF RLe(attained_cii, RMul(Frac(105, 100), required_cii)) THEN "B"
    ELSE IF RLe(attained_cii, RMul(Frac(11, 10), required_cii)) THEN "C"
    ELSE IF RLe(attained_cii, RMul(Frac(115, 100), required_cii)) THEN "D"
    ELSE "E"

\* the sea route lengths (nautical miles) searoute returns for the ports
\* named in the tables below
route_lengths ==
    (<<"Ras Laffan", "Milford Haven">> :> 480) @@ (<<"Milford haven", "Rotterdam">> :> 360) @@ (<<"Ras Laffan", "Rotterdam">> :> 720)

\* route_distance: 0 when the lookup of a port or of the route fails
route_distance(origin, destination) ==
    IF <<origin, destination>> \in DOMAIN route_lengths THEN route_lengths[<<origin, destination>>] ELSE 0

\* all([row[0], ..., row[5]]): the truth value of each field
row_all(row) ==
    row[1] # "" /\ row[2] # "" /\ row[3] # Zero /\ row[4] # Zero /\ row[5] # Zero /\ row[6] # ""

calculate_segment_metrics(row) ==
    IF ~row_all(row) THEN None
    ELSE IF row[6] \notin DOMAIN EMISSION_FACTORS THEN None
    ELSE LET distance == route_distance(row[1], row[2])
             sea_time == RDiv(R(distance), RMul(row[4], R(24)))
         IN  [from_port |-> row[1],
              to_port |-> row[2],
              distance |-> distance,
              sea_time |-> sea_time,
              port_time |-> row[3],
              total_time |-> RAdd(sea_time, row[3]),
              speed |-> row[4],
              fuel_used |-> row[5],
              fuel_type |-> row[6],
              co2_emissions |-> RMul(RMul(row[5], sea_time), EMISSION_FACTORS[row[6]])]

\* the loop over the table: the segments that are not None, in order
RECURSIVE segments_of(_)
segments_of(table) ==
    IF table = <<>> THEN <<>>
    ELSE LET segment_metrics == calculate_segment_metrics(Head(table))
         IN  IF segment_metrics = None THEN segments_of(Tail(table))
             ELSE <<segment_metrics>> \o segments_of(Tail(table))

\* sum(seg['distance'] ...) and sum(seg['co2_emissions'] ...)
RECURSIVE segment_sum(_, _)
segment_sum(voyage_calculations, key) ==
    IF voyage_calculations = <<>> THEN Zero
    ELSE LET v == Head(voyage_calculations)[key]
         IN  RAdd(IF key = "distance" THEN R(v) ELSE v, segment_sum(Tail(voyage_calculations), key))

\* current_data.get(key, 0)
dict_get(current_data, key) ==
    IF current_data = None THEN Zero
    ELSE IF key \in DOMAIN current_data THEN current_data[key] ELSE Zero

\* the body of calculate_projected_cii once the two sums are taken; every
\* exception is caught and gives None
projected_cii_of(current_data, total_new_distance, total_new_co2) ==
    LET capacity == dict_get(current_data, "capacity")
        total_distance == RAdd(dict_get(current_data, "total_distance"), total_new_distance)
        total_co2 == RAdd(dict_get(current_data, "co2_emission"), total_new_co2)
    IN  IF RLe(capacity, Zero) THEN None
        ELSE IF total_distance = Zero THEN None
        ELSE [projected_aer |-> RDiv(RMul(total_co2, R(1000000)), RMul(total_distance, capacity)),
              new_distance |-> total_new_distance,
              new_co2 |-> total_new_co2,
              total_distance |-> total_distance,
              total_co2 |-> total_co2]

calculate_projected_cii(current_data, voyage_calculations) ==
    IF voyage_calculations = <<>> THEN None
    ELSE CHOOSE projections \in {projected_cii_of(current_data, total_new_distance, total_new_co2) : total_new_distance \in {segment_sum(voyage_calculations, "distance")}, total_new_co2 \in {segment_sum(voyage_calculations, "co2_emissions")}} : TRUE

\* what get_vessel_data returns: no row, or the row of a vessel
VesselRow(vessel_type, attained_aer) ==
    [vessel_type |-> vessel_type, capacity |-> VesselCapacity, Attained_AER |-> attained_aer, total_distance |-> R(1000), CO2Emission |-> R(100)]

Lookups ==
    {<<>>, <<VesselRow("LNG CARRIER", R(6))>>, <<VesselRow("LNG CARRIER", None)>>, <<VesselRow("Ro-Ro Ship", R(6))>>, <<VesselRow("TUG", R(6))>>}

\* the year widget (2023 to this year), and date.today().year
Years == {2024, 2026}

VesselNames == {"", "TRAMMO MARYCAM"}

\* the route the Draft Voyage button fills in
DraftTable ==
    <<<<"Ras Laffan", "Milford Haven", R(2), R(20), R(50), "LNG">>, <<"Milford haven", "Rotterdam", R(3), R(15), R(40), "LNG">>>>

\* tables the editor can hold: port days >= 0, speed 1 to 30, fuel >= 0, a
\* listed fuel type; a text left out reads ""
Tables ==
    {<<>>,
     DraftTable,
     <<<<"Ras Laffan", "Rotterdam", Zero, R(15), R(40), "LNG">>>>,
     <<<<"Ras Laffan", "Milford Haven", R(2), R(20), R(50), "LNG">>, <<"Ras Laffan", "Rotterdam", R(1), R(15), Zero, "VLSFO">>>>,
     <<<<"Ras Laffan", "", R(1), R(15), R(40), "LNG">>>>}

\* the lines the Draft Voyage and the Calculate Current CII blocks share: the
\* first row of df to the dict stored as cii_data ("skip": nothing stored)
current_cii(df, year) ==
    LET vessel_type == df[1].vessel_type
        imo_ship_type == mapping_get(vessel_type)
        capacity == df[1].capacity
        attained_aer == df[1].Attained_AER
    IN  IF imo_ship_type # NoText /\ attained_aer # None
        THEN LET reference_cii == calculate_reference_cii(capacity, imo_ship_type)
                 required_cii == calculate_required_cii(reference_cii.val, year)
             IN  IF reference_cii.kind = "raise" THEN reference_cii
                 ELSE Ok([attained_aer |-> PyRound(attained_aer, 100),
                          required_cii |-> PyRound(required_cii, 100),
                          cii_rating |-> calculate_cii_rating(attained_aer, required_cii),
                          total_distance |-> df[1].total_distance,
                          co2_emission |-> df[1].CO2Emission,
                          capacity |-> capacity,
                          vessel_type |-> vessel_type,
                          imo_ship_type |-> imo_ship_type])
        ELSE [kind |-> "skip"]

\* a button that is never disabled
projected_button_enabled(cii_data) == FALSE

\* disabled=not bool(st.session_state.cii_data)
projected_button_disabled(cii_data) == cii_data = None

\* st.session_state.get('calculate_projected') at line 553: set in this run
\* or left from an earlier one
draft_flag(calculate_projected_flag, stored) == calculate_projected_flag \/ stored

\* one run of the script: the button clicked (or "edit" for a rerun caused by
\* the editor), the widgets' values and what the database returns
Rerun(clicked, vessel_name, year, df, edited) ==
    LET looked_up == (clicked = "draft" \/ (clicked = "calculate" /\ vessel_name # "")) /\ df # <<>>
    IN  \E result \in {IF looked_up THEN current_cii(df, year) ELSE [kind |-> "skip"]} :
          IF result.kind = "raise"
          THEN /\ exc' = result.exc
               /\ session' = [session EXCEPT !.runs = @ + 1, !.button_enabled = FALSE, !.last = [clicked |-> clicked, df |-> df, stored |-> FALSE, looped |-> FALSE, voyage_calculations |-> <<>>, projected |-> FALSE, projections |-> None]]
          ELSE LET stored == result.kind = "ok"
                   port_table_data == IF clicked = "draft" /\ stored THEN DraftTable ELSE session.port_table_data
                   flag == draft_flag(session.calculate_projected, clicked = "draft" /\ stored)
                   calculate_projected == clicked = "projected" \/ (clicked = "draft" /\ flag)
                   edited_df == IF clicked = "edit" THEN edited ELSE port_table_data
                   looped == calculate_projected /\ edited_df # <<>>
               IN  \E cii_data \in {IF stored THEN result.val ELSE session.cii_data} :
                   \E voyage_calculations \in {IF looped THEN segments_of(edited_df) ELSE <<>>} :
                   \E projections \in {IF voyage_calculations # <<>> THEN calculate_projected_cii(cii_data, voyage_calculations) ELSE None} :
                     /\ exc' = "none"
                     /\ session' = [cii_data |-> cii_data,
                                    port_table_data |-> edited_df,
                                    voyage_calculations |-> session.voyage_calculations,
                                    calculate_projected |-> session.calculate_projected \/ (clicked = "draft" /\ stored),
                                    button_enabled |-> ~projected_button_disabled(cii_data),
                                    runs |-> session.runs + 1,
                                    last |-> [clicked |-> clicked, df |-> IF looked_up THEN df ELSE <<>>, stored |-> stored, looped |-> looped, voyage_calculations |-> voyage_calculations, projected |-> voyage_calculations # <<>>, projections |-> projections]]

CIIIdle ==
    /\ fn = "none"
    /\ args = <<>>
    /\ remaining_volume = Zero
    /\ day = 0
    /\ daily_data = <<>>
    /\ pc = "idle"
    /\ exc = "none"
    /\ calls = <<>>
    /\ legs = <<>>

\* "Initialize session state" of the first run, before any widget is drawn
InitCII ==
    /\ CIIIdle
    /\ session = [cii_data |-> None,
                  port_table_data |-> <<>>,
                  voyage_calculations |-> <<>>,
                  calculate_projected |-> FALSE,
                  button_enabled |-> FALSE,
                  runs |-> 0,
                  last |-> None]

CanRerun ==
    /\ session # <<>>
    /\ session.runs < MaxRuns

\* the user edits the route table
RunEdit ==
    /\ CanRerun
    /\ \E edited \in Tables : Rerun("edit", "", 2026, <<>>, edited)
    /\ UNCHANGED <<fn, args, remaining_volume, day, daily_data, pc, calls, legs>>

\* the user clicks Calculate Current CII
RunCalculate ==
    /\ CanRerun
    /\ \E vessel_name \in VesselNames, year \in Years, df \in Lookups : Rerun("calculate", vessel_name, year, df, <<>>)
    /\ UNCHANGED <<fn, args, remaining_volume, day, daily_data, pc, calls, legs>>

\* the user clicks Draft Voyage
RunDraft ==
    /\ CanRerun
    /\ \E year \in Years, df \in Lookups : Rerun("draft", "TRAMMO MARYCAM", year, df, <<>>)
    /\ UNCHANGED <<fn, args, remaining_volume, day, daily_data, pc, calls, legs>>

\* the user clicks Calculate Projected CII, which the page last drawn showed
\* enabled
RunProjected ==
    /\ CanRerun
    /\ session.button_enabled
    /\ Rerun("projected", "", 2026, <<>>, <<>>)
    /\ UNCHANGED <<fn, args, remaining_volume, day, daily_data, pc, calls, legs>>

NextCII ==
    \/ RunEdit
    \/ RunCalculate
    \/ RunDraft
    \/ RunProjected

SpecCII == InitCII /\ [][NextCII]_vars

\* ------------------------------------------------------------------------
\* Documented input ranges (the widgets of create_voyage_section)
\* ------------------------------------------------------------------------

InRange(x, lo, hi) == RLe(lo, x) /\ RLe(x, hi)

\* "Ambient Temperature": min_value=-20.0, max_value=45.0
DocumentedTemp(t) == InRange(t, R(-20), R(45))

\* "Wave Height": min_value=0.0, max_value=10.0
DocumentedWave(w) == InRange(w, Zero, R(10))

\* "Tank Pressure (mbar)": min_value=1000.0, max_value=1300.0
DocumentedPressure(p) == InRange(p, R(1000), R(1300))

\* tank level in percent
DocumentedLevel(l) == InRange(l, Zero, R(100))

\* ------------------------------------------------------------------------
\* Views of the state used by the properties
\* ------------------------------------------------------------------------

Days == 1..Len(daily_data)

Calls == 1..Len(calls)

InDailyBog == fn = "calculate_daily_bog"

InProfile == fn = "calculate_daily_bog_profile"

\* the days argument of the simulator called
DaysArg == IF InDailyBog THEN args.days ELSE args.voyage_days

\* remaining volume before day i of calculate_daily_bog (whose records hold the
\* volume after the day)
RemainingBefore(i) ==
    IF i = 1 THEN args.initial_volume ELSE daily_data[i - 1].remaining_volume

\* vented = max(0, (generated - consumed) - capacity), for a record of
\* calculate_daily_bog
Vented(rec) ==
    RMax(Zero, RSub(RSub(rec.bog_generated, rec.bog_consumed), args.reliq_capacity))

\* what the reliquefaction plant takes in: min(generated - consumed, capacity)
PlantIntake(rec) ==
    RMin(RSub(rec.bog_generated, rec.bog_consumed), args.reliq_capacity)

\* the readings recorded so far are inside the documented ranges
ReadingsDocumented ==
    \A i \in Days : /\ DocumentedTemp(daily_data[i].temperature)
                    /\ DocumentedWave(daily_data[i].wave_height)

\* valid inputs of a run of calculate_daily_bog
ValidDailyBogRun ==
    /\ InDailyBog
    /\ RLt(Zero, args.initial_volume)
    /\ RLe(Zero, args.base_bog_rate)
    /\ DocumentedPressure(args.tank_pressure)
    /\ args.solar_radiation \in SolarKeys
    /\ RLe(Zero, args.engine_consumption)
    /\ RLe(Zero, args.reliq_capacity)
    /\ InRange(args.reliq_efficiency, Zero, One)
    /\ ReadingsDocumented

\* valid inputs of a run of calculate_daily_bog_profile
ValidProfileRun ==
    /\ InProfile
    /\ RLt(Zero, args.initial_volume)
    /\ DocumentedPressure(args.tank_pressure)
    /\ args.solar_radiation \in SolarKeys
    /\ ReadingsDocumented

\* the rate a call of a rate function returned
RateOf(c) ==
    CASE c.fn = "calculate_bog_rate" -> c.ret.val
      [] c.fn = "calculate_enhanced_bog_rate" -> c.ret.val.final_rate
      [] c.fn = "calculate_enhanced_bog_rate3" -> c.ret.val
      [] c.fn = "calculate_adjusted_bog" -> c.ret.val[2]

\* the base rate a call was given
BaseOf(c) ==
    IF c.fn = "calculate_adjusted_bog" THEN c.args.base_bog_rate ELSE c.args.base_rate

Multiplicative(c) == c.fn # "calculate_adjusted_bog"

\* the call's readings are inside the documented ranges
DocumentedCall(c) ==
    /\ DocumentedTemp(c.args.ambient_temp)
    /\ DocumentedWave(c.args.wave_height)
    /\ c.args.solar_radiation \in SolarKeys
    /\ Multiplicative(c) => /\ DocumentedPressure(c.args.tank_pressure)
                            /\ DocumentedLevel(c.args.tank_level)

\* the baseline: 1013 mbar, tank level 100 %, 19.5 degrees C, 0 m waves, Low
\* solar radiation, and tank_age at its default where the function has one
AtBaseline(c) ==
    /\ c.args.ambient_temp = Frac(39, 2)
    /\ c.args.wave_height = Zero
    /\ c.args.solar_radiation = "Low"
    /\ Multiplicative(c) => /\ c.args.tank_pressure = R(1013)
                            /\ c.args.tank_level = R(100)
    /\ c.fn = "calculate_enhanced_bog_rate" => c.args.tank_age = R(5)

SolarRank(s) == CASE s = "Low" -> 0 [] s = "Medium" -> 1 [] s = "High" -> 2 [] OTHER -> -1

\* ------------------------------------------------------------------------
\* Properties of the simulators (specification Spec)
\* ------------------------------------------------------------------------

\* C1: mass balance of calculate_daily_bog: for every simulated day d,
\* remaining_volume[d] = remaining_volume[d-1] - bog_generated[d]
\* + bog_reliquefied[d], with remaining_volume[-1] = initial_volume
C1_MassBalance ==
    InDailyBog =>
        \A i \in Days :
            daily_data[i].remaining_volume =
                RAdd(RSub(RemainingBefore(i), daily_data[i].bog_generated),
                     daily_data[i].bog_reliquefied)

\* a two-day voyage with valid inputs has returned and the plant reliquefied
\* on both days
C1_Witness ==
    /\ ValidDailyBogRun
    /\ pc = "returned"
    /\ Len(daily_data) = 2
    /\ \A i \in Days : RLt(Zero, daily_data[i].bog_reliquefied)

\* C2: with valid inputs the remaining cargo volume of every simulated day
\* stays within 0 <= remaining_volume[d] <= initial_volume (both simulators)
C2_RemainingWithinBounds ==
    (ValidDailyBogRun \/ ValidProfileRun) =>
        \A i \in Days :
            InRange(daily_data[i].remaining_volume, Zero, args.initial_volume)

C4_ConsumedPlusReliquefied ==
    (/\ InDailyBog
     /\ RLe(Zero, args.engine_consumption)
     /\ RLe(Zero, args.reliq_capacity)
     /\ InRange(args.reliq_efficiency, Zero, One)) =>
        \A i \in Days :
            RLe(RAdd(daily_data[i].bog_consumed, daily_data[i].bog_reliquefied),
                daily_data[i].bog_generated)

\* a run with valid inputs and a day on which the engines consume, the plant
\* reliquefies and part of the generated BOG is left over
C4_Witness ==
    /\ ValidDailyBogRun
    /\ \E i \in Days :
         /\ RLt(Zero, daily_data[i].bog_consumed)
         /\ RLt(Zero, daily_data[i].bog_reliquefied)
         /\ RLt(RAdd(daily_data[i].bog_consumed, daily_data[i].bog_reliquefied),
                daily_data[i].bog_generated)

\* C5: in every record of both simulators
\* tank_level = remaining_volume / initial_volume * 100
C5_TankLevelMatchesRemaining ==
    \A i \in Days :
        daily_data[i].tank_level =
            RMul(RDiv(daily_data[i].remaining_volume, args.initial_volume), R(100))

\* C10: whenever voyage_days <= 0 or initial_volume <= 0 the simulator
\* returns an empty profile and does not raise
C10_EmptyProfile ==
    (RLe(DaysArg, Zero) \/ RLe(args.initial_volume, Zero)) =>
        /\ pc # "raised"
        /\ daily_data = <<>>

\* ------------------------------------------------------------------------
\* Properties of the rate functions (specification SpecRate)
\* ------------------------------------------------------------------------

C7_Monotone ==
    \A i \in Calls :
        i > 1 =>
            LET c == calls[i - 1]
                d == calls[i]
            IN  (/\ DocumentedCall(c)
                 /\ DocumentedCall(d)
                 /\ RLe(Zero, BaseOf(c))
                 /\ \/ RLt(c.args.ambient_temp, d.args.ambient_temp)
                    \/ RLt(c.args.wave_height, d.args.wave_height)
                    \/ SolarRank(c.args.solar_radiation) < SolarRank(d.args.solar_radiation))
                => RLe(RateOf(c), RateOf(d))

\* two calls inside the documented ranges, the second with higher waves and
\* a strictly higher rate
C7_Witness ==
    /\ Len(calls) = 2
    /\ DocumentedCall(calls[1])
    /\ DocumentedCall(calls[2])
    /\ RLt(calls[1].args.wave_height, calls[2].args.wave_height)
    /\ RLt(RateOf(calls[1]), RateOf(calls[2]))

\* C8: for every base_rate >= 0 and every combination of readings, extreme
\* low readings included, the rate returned is >= 0
C8_RateNonNegative ==
    \A i \in Calls :
        (calls[i].ret.kind = "ok" /\ RLe(Zero, BaseOf(calls[i]))) =>
            RLe(Zero, RateOf(calls[i]))

\* C9: a solar_radiation outside Low, Medium, High makes the rate function
\* raise; it is never treated as zero and never yields a rate
C9_InvalidSolarRaises ==
    \A i \in Calls :
        calls[i].args.solar_radiation \notin SolarKeys =>
            calls[i].ret.kind = "raise"

\* ------------------------------------------------------------------------
\* Properties of the simulators (specification Spec), continued
\* ------------------------------------------------------------------------

\* C11: for a day count N >= 0, integer or not, the simulator never runs more
\* than floor(N) iterations, and when it returns it has run exactly floor(N):
\* the profile has floor(N) records whose day indices are 0, 1, ...,
\* floor(N) - 1 in increasing order, each day once (both simulators)
C11_FloorOfDays ==
    RLe(Zero, DaysArg) =>
        LET floorN == DaysArg[1] \div DaysArg[2]
        IN  /\ Len(daily_data) <= floorN
            /\ \A i \in Days : daily_data[i].day = i - 1
            /\ pc = "returned" => Len(daily_data) = floorN

\* a voyage of 2.5 days (MaxDays + 1/2) has returned with a record for each of
\* its full days
C11_Witness ==
    /\ DaysArg = Frac(2 * MaxDays + 1, 2)
    /\ pc = "returned"
    /\ Len(daily_data) = MaxDays
    /\ daily_data[MaxDays].day = MaxDays - 1

\* a run of calculate_daily_bog in a constant baseline environment: 1013
\* mbar, Low solar radiation, 19.5 degrees C and 0 m waves on every day
BaselineRun ==
    /\ InDailyBog
    /\ RLt(Zero, args.initial_volume)
    /\ args.tank_pressure = R(1013)
    /\ args.solar_radiation = "Low"
    /\ \A i \in Days : /\ daily_data[i].temperature = Frac(39, 2)
                       /\ daily_data[i].wave_height = Zero

\* C12 as stated: in a constant baseline environment in which nothing is
\* reliquefied, every day removes exactly base_bog_rate percent of the volume
\* remaining at the start of that day, so that the remaining volume after day
\* d is initial_volume * (1 - base_bog_rate/100)^(d+1)
C12_ConstantRateDepletion ==
    BaselineRun =>
        \A i \in Days :
            daily_data[i].bog_reliquefied = Zero =>
                daily_data[i].remaining_volume =
                    RMul(RemainingBefore(i), RSub(One, RDiv(args.base_bog_rate, R(100))))

\* C12: in a constant baseline environment the day's rate is base_bog_rate
\* times the level factor 1 + (1 - remaining/initial_volume) * 0.05 of the
\* volume remaining at the start of the day, and the day generates that
\* percentage of the remaining volume: only a day that starts with a full
\* tank removes exactly base_bog_rate percent; when engine_consumption covers
\* the generated BOG, bog_consumed = bog_generated and bog_reliquefied = 0
C12_LevelAdjustedDepletion ==
    BaselineRun =>
        \A i \in Days :
            LET before == RemainingBefore(i)
                factor == RAdd(One, RMul(RSub(One, RDiv(before, args.initial_volume)), Frac(5, 100)))
                rate == RMul(args.base_bog_rate, factor)
            IN  /\ daily_data[i].bog_rate = rate
                /\ daily_data[i].bog_generated = RMul(before, RDiv(rate, R(100)))
                /\ RLe(daily_data[i].bog_generated, args.engine_consumption) =>
                       /\ daily_data[i].bog_consumed = daily_data[i].bog_generated
                       /\ daily_data[i].bog_reliquefied = Zero
                       /\ daily_data[i].remaining_volume =
                              RSub(before, daily_data[i].bog_generated)

\* a baseline run at 50 %/day whose second day starts with the tank half full
\* and runs at 51.25 %/day
C12_Witness ==
    /\ BaselineRun
    /\ args.base_bog_rate = R(50)
    /\ Len(daily_data) = 2
    /\ daily_data[1].bog_rate = R(50)
    /\ daily_data[2].tank_level = R(50)
    /\ daily_data[2].bog_rate = Frac(205, 4)

\* C13: with valid inputs no record with a negative remaining volume is ever
\* produced: a day that starts with a non-negative volume and whose mass
\* balance would go negative is not recorded (the simulator stops with
\* VolumeExhaustedError)
C13_NoNegativeRecord ==
    ValidDailyBogRun =>
        \A i \in Days :
            RLe(Zero, RemainingBefore(i)) => RLe(Zero, daily_data[i].remaining_volume)

\* the readings lists are shorter than the number of full days of the voyage
ShortOfReadings == RLt(R(args.readings), R(PyInt(DaysArg)))

\* C16: when the daily readings are fewer than floor(voyage_days), and the
\* other inputs are valid, the simulator fails before producing any result:
\* no day is simulated and nothing is returned (both simulators)
C16_FailsBeforeAnyResult ==
    (/\ ShortOfReadings
     /\ RLt(Zero, args.initial_volume)
     /\ args.solar_radiation \in SolarKeys) =>
        /\ daily_data = <<>>
        /\ pc # "returned"

\* C19: on every simulated day bog_consumed = min(bog_generated,
\* engine_consumption) and bog_reliquefied = min(bog_generated - bog_consumed,
\* reliq_capacity) * reliq_efficiency, so bog_consumed <= engine_consumption,
\* bog_reliquefied <= reliq_capacity * reliq_efficiency, and a day with
\* engine_consumption >= bog_generated has bog_consumed = bog_generated and
\* bog_reliquefied = 0
C19_SplitRespectsCapacities ==
    InDailyBog =>
        \A i \in Days :
            LET rec == daily_data[i]
            IN  /\ rec.bog_consumed = RMin(rec.bog_generated, args.engine_consumption)
                /\ rec.bog_reliquefied =
                       RMul(RMin(RSub(rec.bog_generated, rec.bog_consumed), args.reliq_capacity),
                            args.reliq_efficiency)
                /\ RLe(rec.bog_consumed, args.engine_consumption)
                /\ RLe(rec.bog_reliquefied, RMul(args.reliq_capacity, args.reliq_efficiency))
                /\ RLe(rec.bog_generated, args.engine_consumption) =>
                       /\ rec.bog_consumed = rec.bog_generated
                       /\ rec.bog_reliquefied = Zero

\* a two-day run with valid inputs and a working plant (capacity and
\* efficiency positive) in which the engines take all the BOG generated, on
\* both days, and nothing is reliquefied
C19_Witness ==
    /\ ValidDailyBogRun
    /\ RLt(Zero, args.reliq_capacity)
    /\ RLt(Zero, args.reliq_efficiency)
    /\ Len(daily_data) = 2
    /\ \A i \in Days : /\ RLt(Zero, daily_data[i].bog_generated)
                       /\ RLe(daily_data[i].bog_generated, args.engine_consumption)
                       /\ daily_data[i].bog_consumed = daily_data[i].bog_generated
                       /\ daily_data[i].bog_reliquefied = Zero

\* ------------------------------------------------------------------------
\* Properties of the economics functions (specification SpecEconomics)
\* ------------------------------------------------------------------------

IsEconomics(c) == c.fn = "calculate_economics"

IsMetrics(c) == c.fn = "calculate_economic_metrics"

\* the prices of an economics call are all non-negative
NonNegativePrices(c) ==
    /\ RLe(Zero, c.args.lng_price)
    /\ RLe(Zero, c.args.bunker_price)
    /\ RLe(Zero, c.args.electricity_cost)
    /\ IsEconomics(c) => RLe(Zero, c.args.power_consumption)
    /\ IsMetrics(c) => /\ RLe(Zero, c.args.carbon_price)
                       /\ RLe(Zero, c.args.voyage_days)

C17_NegativeInputRejected ==
    \A i \in Calls :
        ((IsEconomics(calls[i]) \/ IsMetrics(calls[i])) /\ ~NonNegativePrices(calls[i])) =>
            calls[i].ret.kind = "raise"

\* the totals of calculate_economics are the sums over the days of the
\* profile, and its money values the products of the totals and the prices
EconomicsTotals ==
    \A i \in Calls :
        LET c == calls[i]
            r == c.ret.val
            generated[d \in 0..Len(daily_data)] ==
                IF d = 0 THEN Zero ELSE RAdd(generated[d - 1], daily_data[d].bog_generated)
            consumed[d \in 0..Len(daily_data)] ==
                IF d = 0 THEN Zero ELSE RAdd(consumed[d - 1], daily_data[d].bog_consumed)
            reliquefied[d \in 0..Len(daily_data)] ==
                IF d = 0 THEN Zero ELSE RAdd(reliquefied[d - 1], daily_data[d].bog_reliquefied)
        IN  IsEconomics(c) =>
                /\ r.total_bog_generated = generated[Len(daily_data)]
                /\ r.total_bog_consumed = consumed[Len(daily_data)]
                /\ r.total_bog_reliquefied = reliquefied[Len(daily_data)]
                /\ r.fuel_savings = RMul(r.total_bog_consumed, c.args.bunker_price)
                /\ r.reliq_cost =
                       RMul(RMul(RMul(r.total_bog_reliquefied, c.args.power_consumption),
                                 c.args.electricity_cost), R(24))
                /\ daily_data = <<>> =>
                       /\ r.total_bog_generated = Zero
                       /\ r.total_bog_consumed = Zero
                       /\ r.total_bog_reliquefied = Zero
                       /\ r.fuel_savings = Zero
                       /\ r.reliq_cost = Zero

\* C20: calculate_economics returns totals that are the sums over all days of
\* the profile's bog_generated, bog_consumed and bog_reliquefied, with
\* fuel_savings = total_bog_consumed * bunker_price and reliq_cost =
\* total_bog_reliquefied * power_consumption * electricity_cost * 24; the
\* step that computes them leaves the profile unchanged, and an empty
\* profile yields all-zero totals
C20_EconomicsTotals ==
    /\ []EconomicsTotals
    /\ [][pc' = "summarized" => daily_data' = daily_data]_vars

\* calculate_economics was called on a two-day profile with positive totals
\* of BOG generated, consumed and reliquefied
C20_Witness ==
    /\ pc = "summarized"
    /\ Len(daily_data) = 2
    /\ calls # <<>>
    /\ IsEconomics(calls[1])
    /\ RLt(Zero, calls[1].ret.val.total_bog_consumed)
    /\ RLt(Zero, calls[1].ret.val.total_bog_reliquefied)
    /\ RLt(calls[1].ret.val.total_bog_consumed, calls[1].ret.val.total_bog_generated)

\* ------------------------------------------------------------------------
\* Properties of a session of rate-function calls (specification
\* SpecSession)
\* ------------------------------------------------------------------------

C21_StreamsAddUp ==
    \A i \in Calls :
        LET c == calls[i]
            streams == RAdd(RAdd(c.ret.bog_reliquefied, c.ret.bog_consumed), c.ret.bog_to_gcu)
        IN  /\ c.fn = "bog_distribution" => streams = c.args.daily_bog
            /\ c.fn = "profile_bog_distribution" => streams = c.args.total_bog

\* C29: the heel range is well ordered, min_heel <= recommended_heel <=
\* max_heel, for every tank capacity > 0, voyage duration >= 0, daily
\* consumption >= 0 and safety factor >= 1
C29_HeelRangeOrdered ==
    \A i \in Calls :
        LET c == calls[i]
        IN  c.fn \in {"calculate_heel_requirements", "calculate_optimal_heel"} =>
                /\ RLe(c.ret.min_heel, c.ret.recommended_heel)
                /\ RLe(c.ret.recommended_heel, c.ret.max_heel)

\* C30: the heel calculator's calculate_totals returns the rate times the
\* voyage duration in days, distance / (speed * 24), rounded to two places,
\* when speed > 0 and 0 otherwise, and agrees with the total of
\* bog_calculator1.calculate_totals for the same inputs
C30_TotalsAgree ==
    \A i \in Calls :
        LET c == calls[i]
            a == c.args
        IN  c.fn = "lng_heel_management.calculate_totals" =>
                /\ c.ret = IF RLt(Zero, a.speed)
                           THEN PyRound(RMul(a.consumption_rate, RDiv(a.distance, RMul(a.speed, R(24)))), 100)
                           ELSE Zero
                /\ \A j \in Calls :
                       (calls[j].fn = "bog_calculator1.calculate_totals" /\ calls[j].args = a) =>
                           c.ret = calls[j].ret[1]

\* ------------------------------------------------------------------------
\* The base rate of calculate_daily_bog_profile (specification Spec)
\* ------------------------------------------------------------------------

\* the base rate get_vessel_configs() gives the vessel on a laden leg
configured_base_rate(vessel_type) ==
    LET config == vessel_configs[vessel_type]
    IN  IF "bog_rates" \in DOMAIN config THEN config.bog_rates.laden ELSE config.base_bog_rate

\* C22: every day's rate of a profile of a laden voyage (valid inputs) is the
\* rate the rate model gives for the vessel's configured base rate, 0.14 for
\* MEGI and the laden 0.15 for DFDE, and the base rate used is not 0
C22_ConfiguredBaseRate ==
    ValidProfileRun =>
        \A i \in Days :
            LET rec == daily_data[i]
                configured == calculate_enhanced_bog_rate(configured_base_rate(args.vessel_type), args.tank_pressure, rec.tank_level, rec.temperature, rec.wave_height, args.solar_radiation, args.vessel_type, FALSE, args.tank_age).val
            IN  /\ rec.bog_rate = configured.final_rate
                /\ effective_base_rate(Zero, args.vessel_type, profile_is_ballast(args.initial_volume)) # Zero

\* ------------------------------------------------------------------------
\* Properties of the Analysis tab of a voyage section (specification
\* SpecSection)
\* ------------------------------------------------------------------------

\* C23: the simulation and the economics of the section run with the vessel
\* type selected
C23_SelectedVesselType ==
    /\ fn = "calculate_daily_bog_profile" => args.vessel_type = session.vessel_type
    /\ \A i \in Calls : calls[i].args.vessel_type = session.vessel_type

\* C24: when voyage_days > 0 (and there is cargo) the results step raises
\* nothing
C24_ResultsStepCompletes ==
    (RLt(Zero, session.voyage_days) /\ RLt(Zero, session.initial_cargo)) => pc # "raised"

\* ------------------------------------------------------------------------
\* Properties of the CII calculator page (specification SpecCII)
\* ------------------------------------------------------------------------

\* a run of the page has completed
HasRun == session # <<>> /\ session.runs > 0

\* the rows of a table with every field filled in with a value the editor
\* allows
RowAllowed(row) ==
    /\ row[1] # ""
    /\ row[2] # ""
    /\ RLe(Zero, row[3])
    /\ RLe(One, row[4])
    /\ RLe(Zero, row[5])
    /\ row[6] \in DOMAIN EMISSION_FACTORS

AllowedRows(table) == SelectSeq(table, RowAllowed)

\* C25: a projected CII is only computed in a run in which cii_data is not
\* empty
C25_ProjectionNeedsCurrent ==
    (HasRun /\ session.last.projected) => session.cii_data # None

C25_Witness ==
    /\ HasRun
    /\ session.last.clicked = "projected"
    /\ session.last.projected
    /\ session.last.projections # None
    /\ session.cii_data # None

\* C26: a Draft Voyage click whose lookup stored nothing triggers no
\* projection
C26_DraftNeedsOwnLookup ==
    (HasRun /\ session.last.clicked = "draft" /\ ~session.last.stored) => ~session.last.projected

\* C27: Calculate Current CII for a vessel type of the mapping and a positive
\* capacity raises nothing
C27_MappedTypesSupported ==
    (/\ HasRun
     /\ session.last.clicked = "calculate"
     /\ session.last.df # <<>>
     /\ session.last.df[1].vessel_type \in DOMAIN VESSEL_TYPE_MAPPING
     /\ RLt(Zero, session.last.df[1].capacity)) => exc = "none"

\* C28: when the projection loops over the table, every allowed row gives a
\* segment
C28_AllowedRowsCounted ==
    (HasRun /\ session.last.looped) =>
        Len(session.last.voyage_calculations) = Len(AllowedRows(session.port_table_data))

====
